---- MODULE Spec2Model ----
(***************************************************************************)
(* A model of the rt-common library: the Time wrapper (src/src/time.rs),   *)
(* the RTTask entity (src/src/rt_task.rs) and the RTUtils taskset          *)
(* functions (src/src/utils.rs).                                           *)
(*                                                                         *)
(* The library is a set of pure functions.  Each specification below is a  *)
(* caller: its initial states draw the operands from bounded sets, and     *)
(* each action applies one library operation to them and records the call  *)
(* and what it returned in `res`.                                          *)
(*                                                                         *)
(* f64 is modelled as a decimal floating point number: NaN, +inf, -inf or  *)
(* a finite value m * 10^e with an integer mantissa m that has no trailing *)
(* zero (so that equal values are equal records).  Addition, subtraction,  *)
(* multiplication, floor, remainder and comparison are exact on the values *)
(* used here; division rounds to DivDigits digits, as f64 rounds to 53     *)
(* bits.  The signed zero is not modelled.                                 *)
(*                                                                         *)
(* i64 and u64 are modelled with IntBits bits instead of 64: wrap-around,  *)
(* saturation and the overflow checks act at the scaled-down limits.       *)
(***************************************************************************)
EXTENDS Integers, Sequences, FiniteSets, TLC

VARIABLES
    a, b, c,     \* Time operands held by the caller
    str,         \* the string handed to / produced by (de)serialization
    taskset,     \* the caller's taskset: a sequence of RTTask
    pc,          \* the caller's position
    res          \* the last call: operation, arguments, returned value

vars == <<a, b, c, str, taskset, pc, res>>

----------------------------------------------------------------------------
(* Bounds of the model *)

\* longest input string handed to Time::deserialize
MaxLen == 5
\* longest taskset
MaxTasks == 3
\* width of the modelled i64 / u64 (64 in the program)
IntBits == 8
\* decimal digits kept by an inexact f64 division
DivDigits == 3

----------------------------------------------------------------------------
(* f64 *)

NaN == [k |-> "nan", m |-> 0, e |-> 0]
PInf == [k |-> "inf", m |-> 1, e |-> 0]
NInf == [k |-> "inf", m |-> -1, e |-> 0]

RECURSIVE Pow10(_)
Pow10(n) == IF n <= 0 THEN 1 ELSE 10 * Pow10(n - 1)

Abs(n) == IF n < 0 THEN -n ELSE n

Sgn(n) == IF n < 0 THEN -1 ELSE IF n > 0 THEN 1 ELSE 0

\* the finite value m * 10^e, normalised
RECURSIVE Fin(_, _)
Fin(m, e) ==
    IF m = 0 THEN [k |-> "fin", m |-> 0, e |-> 0]
    ELSE IF m % 10 = 0 THEN Fin(m \div 10, e + 1)
    ELSE [k |-> "fin", m |-> m, e |-> e]

FromInt(n) == Fin(n, 0)

IsNaN(x) == x.k = "nan"
IsInf(x) == x.k = "inf"
IsFin(x) == x.k = "fin"

MinE(x, y) == IF x.e < y.e THEN x.e ELSE y.e

\* a finite value as a count of 10^e0 units (e0 <= x.e)
Units(x, e0) == x.m * Pow10(x.e - e0)

\* three-way comparison of two values that are not NaN: -1, 0, 1
FOrd(x, y) ==
    IF IsInf(x) THEN (IF IsInf(y) THEN Sgn(x.m - y.m) ELSE x.m)
    ELSE IF IsInf(y) THEN -y.m
    ELSE LET e0 == MinE(x, y) IN Sgn(Units(x, e0) - Units(y, e0))

\* IEEE comparisons: false when an operand is NaN
FLt(x, y) == ~IsNaN(x) /\ ~IsNaN(y) /\ FOrd(x, y) = -1
FLe(x, y) == ~IsNaN(x) /\ ~IsNaN(y) /\ FOrd(x, y) <= 0
FGe(x, y) == ~IsNaN(x) /\ ~IsNaN(y) /\ FOrd(x, y) >= 0

FNeg(x) == IF IsNaN(x) THEN NaN ELSE [x EXCEPT !.m = -x.m]

FAbs(x) == IF IsNaN(x) THEN NaN ELSE [x EXCEPT !.m = Abs(x.m)]

FAdd(x, y) ==
    IF IsNaN(x) \/ IsNaN(y) THEN NaN
    ELSE IF IsInf(x) THEN (IF IsInf(y) /\ y.m # x.m THEN NaN ELSE x)
    ELSE IF IsInf(y) THEN y
    ELSE LET e0 == MinE(x, y) IN Fin(Units(x, e0) + Units(y, e0), e0)

FSub(x, y) == FAdd(x, FNeg(y))

FMul(x, y) ==
    IF IsNaN(x) \/ IsNaN(y) THEN NaN
    ELSE IF IsInf(x) \/ IsInf(y)
         THEN (IF x.m = 0 \/ y.m = 0 THEN NaN
               ELSE IF Sgn(x.m) * Sgn(y.m) > 0 THEN PInf ELSE NInf)
    ELSE Fin(x.m * y.m, x.e + y.e)

\* |p| / |q| to DivDigits decimal digits, rounded to nearest
QuotDigits(p, q) == (2 * Abs(p) * Pow10(DivDigits) + Abs(q)) \div (2 * Abs(q))

FDiv(x, y) ==
    IF IsNaN(x) \/ IsNaN(y) THEN NaN
    ELSE IF IsInf(x)
         THEN (IF IsInf(y) THEN NaN
               ELSE IF x.m * (IF y.m < 0 THEN -1 ELSE 1) > 0 THEN PInf ELSE NInf)
    ELSE IF IsInf(y) THEN FromInt(0)
    ELSE IF y.m = 0
         THEN (IF x.m = 0 THEN NaN ELSE IF x.m > 0 THEN PInf ELSE NInf)
    ELSE IF x.m % y.m = 0 THEN Fin(x.m \div y.m, x.e - y.e)
    ELSE Fin(Sgn(x.m) * Sgn(y.m) * QuotDigits(x.m, y.m),
             x.e - y.e - DivDigits)

\* f64::floor
FFloor(x) ==
    IF ~IsFin(x) \/ x.e >= 0 THEN x
    ELSE Fin(x.m \div Pow10(-x.e), 0)

\* the f64 % operator: the remainder of the truncated division, with the
\* sign of the dividend
FRem(x, y) ==
    IF IsNaN(x) \/ IsNaN(y) \/ IsInf(x) THEN NaN
    ELSE IF IsInf(y) THEN x
    ELSE IF y.m = 0 THEN NaN
    ELSE LET e0 == MinE(x, y)
             p == Units(x, e0)
             q == Units(y, e0)
         IN Fin(Sgn(p) * (Abs(p) % Abs(q)), e0)

----------------------------------------------------------------------------
(* Strings are sequences of one-character strings *)

Digits == <<"0", "1", "2", "3", "4", "5", "6", "7", "8", "9">>

RECURSIVE NatToStr(_)
NatToStr(n) ==
    IF n < 10 THEN <<Digits[n + 1]>>
    ELSE NatToStr(n \div 10) \o <<Digits[(n % 10) + 1]>>

Zeros(n) == [i \in 1..n |-> "0"]

PadLeft(s, w) == Zeros(w - Len(s)) \o s

\* Rust's `{}` of an f64: the shortest decimal that reads back as the same
\* value, never in exponent notation
FmtDisplay(x) ==
    IF IsNaN(x) THEN <<"N", "a", "N">>
    ELSE IF IsInf(x)
         THEN (IF x.m < 0 THEN <<"-">> ELSE <<>>) \o <<"i", "n", "f">>
    ELSE LET sign == IF x.m < 0 THEN <<"-">> ELSE <<>>
             mag == Abs(x.m)
         IN IF x.e >= 0 THEN sign \o NatToStr(mag) \o Zeros(x.e)
            ELSE LET p == Pow10(-x.e)
                 IN sign \o NatToStr(mag \div p) \o <<".">>
                         \o PadLeft(NatToStr(mag % p), -x.e)

\* n / p rounded to an integer, ties to even
RoundHalfEven(n, p) ==
    LET q == n \div p
        r == n % p
    IN IF 2 * r > p \/ (2 * r = p /\ q % 2 = 1) THEN q + 1 ELSE q

\* Rust's `{:.3}` of an f64
FmtFixed3(x) ==
    IF IsNaN(x) THEN <<"N", "a", "N">>
    ELSE IF IsInf(x)
         THEN (IF x.m < 0 THEN <<"-">> ELSE <<>>) \o <<"i", "n", "f">>
    ELSE LET sign == IF x.m < 0 THEN <<"-">> ELSE <<>>
             mag == Abs(x.m)
         IN IF x.e >= 0
            THEN sign \o NatToStr(mag) \o Zeros(x.e) \o <<".", "0", "0", "0">>
            ELSE LET d == -x.e
                     ip == mag \div Pow10(d)
                     fp == mag % Pow10(d)
                     th == IF d <= 3 THEN fp * Pow10(3 - d)
                           ELSE RoundHalfEven(fp, Pow10(d - 3))
                 IN sign \o NatToStr(ip + th \div 1000) \o <<".">>
                         \o PadLeft(NatToStr(th % 1000), 3)

----------------------------------------------------------------------------
(* Time *)

MICRO_TO_NANO == 1000
MILLI_TO_NANO == 1000000
SECS_TO_NANO == 1000000000

Time(f) == [value_ns |-> f]

zero == Time(FromInt(0))

nanos(time_ns) == Time(time_ns)

as_nanos(t) == t.value_ns

\* a faulty variant of eq: the tolerance compared with `<=`
TimeEqInclusive(self, other) ==
    LET error == Fin(5, -1)
    IN FLe(FAbs(FSub(self.value_ns, other.value_ns)), error)

\* impl PartialEq for Time
TimeEq(self, other) ==
    LET error == Fin(5, -1)
    IN FLt(FAbs(FSub(self.value_ns, other.value_ns)), error)

\* ordered_float::OrderedFloat::cmp: NaN is the greatest value and equal
\* to itself
OrderedFloatCmp(lhs, rhs) ==
    IF IsNaN(lhs) THEN (IF IsNaN(rhs) THEN "Equal" ELSE "Greater")
    ELSE IF IsNaN(rhs) THEN "Less"
    ELSE CASE FOrd(lhs, rhs) = -1 -> "Less"
           [] FOrd(lhs, rhs) = 0 -> "Equal"
           [] OTHER -> "Greater"

\* impl Ord for Time
TimeCmp(self, other) == OrderedFloatCmp(self.value_ns, other.value_ns)

\* impl PartialOrd for Time: always Some(ordering)
TimePartialCmp(self, other) == OrderedFloatCmp(self.value_ns, other.value_ns)

\* the `<=` operator that PartialOrd derives from partial_cmp
TimeLe(self, other) == TimePartialCmp(self, other) \in {"Less", "Equal"}

TimeSub(self, rhs) == Time(FSub(self.value_ns, rhs.value_ns))

\* a faulty variant of rem: the dividend is not floored
TimeRemUnfloored(self, rhs) ==
    Time(FRem(self.value_ns, FFloor(rhs.value_ns)))

\* impl Rem for Time
TimeRem(self, rhs) == Time(FRem(FFloor(self.value_ns), FFloor(rhs.value_ns)))

\* impl Display for Time
TimeDisplay(self) ==
    LET milli == FDiv(self.value_ns, FromInt(MILLI_TO_NANO))
        micro == FDiv(self.value_ns, FromInt(MICRO_TO_NANO))
    IN IF FGe(milli, FromInt(1)) THEN FmtFixed3(milli) \o <<"m", "s">>
       ELSE IF FGe(micro, FromInt(1)) THEN FmtFixed3(micro) \o <<"u", "s">>
       ELSE FmtFixed3(self.value_ns) \o <<"n", "s">>

----------------------------------------------------------------------------
(* The caller of the Time algebra: operands a, b, c and one call at a time *)

\* the durations the caller holds, in nanoseconds
TimeValues ==
    { Time(FromInt(0)), Time(Fin(5, -1)), Time(FromInt(3)),
      Time(Fin(75, -1)), Time(Fin(-75, -1)), Time(FromInt(-8)),
      Time(FromInt(1000)), Time(Fin(10004, -1)), Time(Fin(10005, -1)),
      Time(Fin(10006, -1)), Time(Fin(15004, -1)), Time(FromInt(5000000)),
      Time(FromInt(-5000000)), Time(NaN), Time(PInf), Time(NInf) }

NoCall == [op |-> "none", x |-> zero, y |-> zero, ret |-> FALSE]

Call(op, x, y, ret) == [op |-> op, x |-> x, y |-> y, ret |-> ret]

InitTime ==
    /\ a \in TimeValues
    /\ b \in TimeValues
    /\ c \in TimeValues
    /\ str = <<>>
    /\ taskset = <<>>
    /\ pc = "time"
    /\ res = NoCall

Pairs == {<<a, b>>, <<b, a>>, <<b, c>>, <<a, c>>, <<a, a>>}

DoEq ==
    /\ \E p \in Pairs : res' = Call("eq", p[1], p[2], TimeEq(p[1], p[2]))
    /\ UNCHANGED <<a, b, c, str, taskset, pc>>

DoCmp ==
    /\ \E p \in Pairs : res' = Call("cmp", p[1], p[2], TimeCmp(p[1], p[2]))
    /\ UNCHANGED <<a, b, c, str, taskset, pc>>

DoRem ==
    /\ res' = Call("rem", a, b, TimeRem(a, b))
    /\ UNCHANGED <<a, b, c, str, taskset, pc>>

DoDisplay ==
    /\ res' = Call("display", a, a, TimeDisplay(a))
    /\ UNCHANGED <<a, b, c, str, taskset, pc>>

NextTime == DoEq \/ DoCmp \/ DoRem \/ DoDisplay

SpecTime == InitTime /\ [][NextTime]_vars

----------------------------------------------------------------------------
(* Properties of the Time algebra, checked under SpecTime *)

\* a finite value of at most one decimal, as a count of tenths of a nanosecond
Tenths(f) == f.m * Pow10(f.e + 1)

\* the integer floor of a finite value of at most one decimal
FloorInt(f) == Tenths(f) \div 10

\* C1: a == b holds if and only if |a.value_ns - b.value_ns| < 0.5, strictly:
\* both values are finite and less than half a nanosecond apart (a difference
\* with a NaN or an infinite operand is NaN or infinite, never below 0.5).
C1_EqIffWithinHalfNs ==
    res.op = "eq" =>
        (res.ret <=>
            /\ IsFin(res.x.value_ns)
            /\ IsFin(res.y.value_ns)
            /\ 2 * Abs(Tenths(res.x.value_ns) - Tenths(res.y.value_ns)) < 10)

\* 1000.0 == 1000.4 has been evaluated and is true
C1_Witness ==
    /\ res.op = "eq"
    /\ res.x = Time(FromInt(1000))
    /\ res.y = Time(Fin(10004, -1))
    /\ res.ret = TRUE

\* the last two characters of a rendered duration
Suffix(s) == SubSeq(s, Len(s) - 1, Len(s))

\* the unit the magnitude of a duration selects: ms, else us, else ns
UnitByMagnitude(f) ==
    IF IsNaN(f) THEN <<"n", "s">>
    ELSE IF IsInf(f) THEN <<"m", "s">>
    ELSE IF Abs(Tenths(f)) >= 10 * MILLI_TO_NANO THEN <<"m", "s">>
    ELSE IF Abs(Tenths(f)) >= 10 * MICRO_TO_NANO THEN <<"u", "s">>
    ELSE <<"n", "s">>

\* C7: Display renders every duration, negative ones included, in ms if its
\* magnitude in milliseconds is >= 1, else in us if its magnitude in
\* microseconds is >= 1, else in ns.
\* (Stated here for the finite durations.)
C7_DisplayUnitByMagnitude ==
    res.op = "display" /\ IsFin(res.x.value_ns) =>
        Suffix(res.ret) = UnitByMagnitude(res.x.value_ns)

\* C8: for durations a, b with floor(b) /= 0, a % b is floor(a) mod floor(b),
\* the remainder r of the truncated division (floor(a) = q * floor(b) + r with
\* |r| < |floor(b)| and r zero or of the sign of floor(a)); the result is an
\* integer whatever the sub-nanosecond parts are, and 0 <= r < floor(b) when
\* a >= 0 and b > 0.  With a NaN or infinite a, or a NaN b, the f64 remainder
\* is NaN; with an infinite b it is floor(a).
C8_RemOnFlooredValues ==
    res.op = "rem" =>
        LET x == res.x.value_ns
            y == res.y.value_ns
            r == res.ret.value_ns
        IN IF IsNaN(x) \/ IsInf(x) \/ IsNaN(y) THEN IsNaN(r)
           ELSE IF IsInf(y) THEN r = FromInt(FloorInt(x))
           ELSE FloorInt(y) # 0 =>
                /\ IsFin(r)
                /\ r.e >= 0
                /\ (FloorInt(x) - FloorInt(r)) % Abs(FloorInt(y)) = 0
                /\ Abs(FloorInt(r)) < Abs(FloorInt(y))
                /\ (FloorInt(r) = 0 \/ Sgn(FloorInt(r)) = Sgn(FloorInt(x)))
                /\ (Tenths(x) >= 0 /\ Tenths(y) > 0 =>
                        0 <= FloorInt(r) /\ FloorInt(r) < FloorInt(y))

\* 7.5 ns % 3 ns has been evaluated and is 1 ns
C8_Witness ==
    /\ res.op = "rem"
    /\ res.x = Time(Fin(75, -1))
    /\ res.y = Time(FromInt(3))
    /\ res.ret = Time(FromInt(1))

\* C10: equality is an equivalence relation (reflexive, symmetric,
\* transitive) and agrees with the total order: a == b exactly when
\* a.cmp(b) is Equal.  (Stated here for the finite durations.)
C10_EqOrdConsistent ==
    (\A t \in {a, b, c} : IsFin(t.value_ns)) =>
    /\ res.op = "eq" => (res.ret <=> TimeCmp(res.x, res.y) = "Equal")
    /\ res.op = "cmp" => (res.ret = "Equal" <=> TimeEq(res.x, res.y))
    /\ res.op \in {"eq", "cmp"} =>
        /\ TimeEq(a, a)
        /\ TimeEq(a, b) => TimeEq(b, a)
        /\ TimeEq(a, b) /\ TimeEq(b, c) => TimeEq(a, c)

----------------------------------------------------------------------------
(* Serialization of Time *)

\* impl Serialize for Time: format!("{} ns", self.value_ns)
SerializeTime(self) == FmtDisplay(self.value_ns) \o <<" ", "n", "s">>

IsWhite(ch) == ch \in {" ", "\t", "\n", "\r"}

RECURSIVE TrimStart(_)
TrimStart(s) ==
    IF s # <<>> /\ IsWhite(Head(s)) THEN TrimStart(Tail(s)) ELSE s

RECURSIVE TrimEnd(_)
TrimEnd(s) ==
    IF s # <<>> /\ IsWhite(s[Len(s)])
    THEN TrimEnd(SubSeq(s, 1, Len(s) - 1)) ELSE s

\* str::trim
Trim(s) == TrimEnd(TrimStart(s))

\* str::split_whitespace, scanning s with the current piece cur and the
\* pieces found so far acc
RECURSIVE SplitFrom(_, _, _)
SplitFrom(s, cur, acc) ==
    IF s = <<>> THEN (IF cur = <<>> THEN acc ELSE Append(acc, cur))
    ELSE IF IsWhite(Head(s))
         THEN SplitFrom(Tail(s), <<>>,
                        IF cur = <<>> THEN acc ELSE Append(acc, cur))
    ELSE SplitFrom(Tail(s), Append(cur, Head(s)), acc)

SplitWhitespace(s) == SplitFrom(s, <<>>, <<>>)

IsDigit(ch) == \E d \in 1..10 : Digits[d] = ch

DigitVal(ch) == (CHOOSE d \in 1..10 : Digits[d] = ch) - 1

RECURSIVE DigitsVal(_)
DigitsVal(s) ==
    IF s = <<>> THEN 0
    ELSE 10 * DigitsVal(SubSeq(s, 1, Len(s) - 1)) + DigitVal(s[Len(s)])

AllDigits(s) == \A i \in 1..Len(s) : IsDigit(s[i])

\* the first position of s holding a character of set, 0 when there is none
IndexOf(s, set) ==
    IF \E i \in 1..Len(s) : s[i] \in set
    THEN CHOOSE i \in 1..Len(s) :
            s[i] \in set /\ \A j \in 1..(i - 1) : s[j] \notin set
    ELSE 0

Lower(ch) ==
    CASE ch = "I" -> "i" [] ch = "N" -> "n" [] ch = "F" -> "f"
      [] ch = "A" -> "a" [] ch = "T" -> "t" [] ch = "Y" -> "y"
      [] OTHER -> ch

LowerStr(s) == [i \in 1..Len(s) |-> Lower(s[i])]

\* an unsigned decimal literal: digits with an optional point and an
\* optional exponent, at least one digit in the mantissa
ParseDecimal(body) ==
    LET ePos == IndexOf(body, {"e", "E"})
        mant == IF ePos = 0 THEN body ELSE SubSeq(body, 1, ePos - 1)
        expS == IF ePos = 0 THEN <<>> ELSE SubSeq(body, ePos + 1, Len(body))
        expSigned == expS # <<>> /\ Head(expS) \in {"+", "-"}
        expDigits == IF expSigned THEN Tail(expS) ELSE expS
        expOk == ePos = 0 \/ (expDigits # <<>> /\ AllDigits(expDigits))
        dot == IndexOf(mant, {"."})
        ip == IF dot = 0 THEN mant ELSE SubSeq(mant, 1, dot - 1)
        fp == IF dot = 0 THEN <<>> ELSE SubSeq(mant, dot + 1, Len(mant))
        mantOk == AllDigits(ip) /\ AllDigits(fp) /\ (ip # <<>> \/ fp # <<>>)
        expVal == IF expSigned /\ Head(expS) = "-"
                  THEN -DigitsVal(expDigits) ELSE DigitsVal(expDigits)
    IN IF mantOk /\ expOk
       THEN [ok |-> TRUE, val |-> Fin(DigitsVal(ip \o fp), expVal - Len(fp))]
       ELSE [ok |-> FALSE, val |-> NaN]

\* str::parse::<f64>: an optional sign, then inf, infinity or nan in any
\* case, or a decimal literal
ParseF64(tok) ==
    LET signed == tok # <<>> /\ Head(tok) \in {"+", "-"}
        neg == signed /\ Head(tok) = "-"
        body == IF signed THEN Tail(tok) ELSE tok
        low == LowerStr(body)
        d == ParseDecimal(body)
    IN IF low \in {<<"i", "n", "f">>,
                   <<"i", "n", "f", "i", "n", "i", "t", "y">>}
       THEN [ok |-> TRUE, val |-> IF neg THEN NInf ELSE PInf]
       ELSE IF low = <<"n", "a", "n">> THEN [ok |-> TRUE, val |-> NaN]
       ELSE [ok |-> d.ok, val |-> IF neg THEN FNeg(d.val) ELSE d.val]

Ok(t) == [tag |-> "Ok", val |-> t]

\* serde::de::Error::custom of a message: its fixed text and its argument
Err(text, arg) == [tag |-> "Err", msg |-> text, arg |-> arg]

InvalidTime == "Invalid time: "
UnknownUnit == "Unknown time unit: "
UnknownFormat == "Parsing error, unknown format"

\* the float parser's own message for a token that is not a number
InvalidFloat == <<"invalid float literal">>

\* the match on the unit token: the multiplier, or 0 for the fall-through arm
UnitMultiplier(u) ==
    CASE u = <<"s">> -> SECS_TO_NANO
      [] u = <<"m", "s">> -> MILLI_TO_NANO
      [] u = <<"u", "s">> -> MICRO_TO_NANO
      [] u = <<"n", "s">> -> 1
      [] OTHER -> 0

\* a faulty variant of deserialize: the unit is matched before the number
\* is parsed
DeserializeUnitFirst(time_string) ==
    LET pieces == SplitWhitespace(Trim(time_string))
    IN IF Len(pieces) = 1
       THEN LET time == ParseF64(pieces[1])
            IN IF ~time.ok THEN Err(InvalidTime, InvalidFloat)
               ELSE Ok(Time(time.val))
       ELSE IF Len(pieces) = 2
       THEN LET time == ParseF64(pieces[1])
                unit == UnitMultiplier(pieces[2])
            IN IF unit = 0 THEN Err(UnknownUnit, pieces[2])
               ELSE IF ~time.ok THEN Err(InvalidTime, InvalidFloat)
               ELSE Ok(nanos(FMul(time.val, FromInt(unit))))
       ELSE Err(UnknownFormat, <<>>)

\* impl Deserialize for Time
DeserializeTime(time_string) ==
    LET pieces == SplitWhitespace(Trim(time_string))
    IN IF Len(pieces) = 1
       THEN LET time == ParseF64(pieces[1])
            IN IF ~time.ok THEN Err(InvalidTime, InvalidFloat)
               ELSE Ok(Time(time.val))
       ELSE IF Len(pieces) = 2
       THEN LET time == ParseF64(pieces[1])
                unit == UnitMultiplier(pieces[2])
            IN IF ~time.ok THEN Err(InvalidTime, InvalidFloat)
               ELSE IF unit = 0 THEN Err(UnknownUnit, pieces[2])
               ELSE Ok(nanos(FMul(time.val, FromInt(unit))))
       ELSE Err(UnknownFormat, <<>>)

----------------------------------------------------------------------------
(* The caller of the (de)serialization: it either holds a duration, which  *)
(* it serializes and reads back, or an arbitrary string, which it reads.   *)

Alphabet == {" ", "\t", "5", "m", "u", "n", "s"}

Strings == UNION {[1..n -> Alphabet] : n \in 0..MaxLen}

InitSerde ==
    /\ b = zero
    /\ c = zero
    /\ taskset = <<>>
    /\ res = NoCall
    /\ \/ pc = "value" /\ a \in TimeValues /\ str = <<>>
       \/ pc = "input" /\ a = zero /\ str \in Strings

DoSerialize ==
    /\ pc = "value"
    /\ str' = SerializeTime(a)
    /\ res' = Call("serialize", a, a, SerializeTime(a))
    /\ pc' = "serialized"
    /\ UNCHANGED <<a, b, c, taskset>>

DoDeserialize ==
    /\ pc \in {"input", "serialized"}
    /\ res' = Call("deserialize", a, a, DeserializeTime(str))
    /\ pc' = IF pc = "serialized" THEN "roundtrip" ELSE "parsed"
    /\ UNCHANGED <<a, b, c, str, taskset>>

NextSerde == DoSerialize \/ DoDeserialize

SpecSerde == InitSerde /\ [][NextSerde]_vars

----------------------------------------------------------------------------
(* Properties of the (de)serialization, checked under SpecSerde *)

\* the tokens of s as the maximal runs of non-whitespace characters
Runs(s) ==
    {r \in (1..Len(s)) \X (1..Len(s)) :
        /\ r[1] <= r[2]
        /\ \A i \in r[1]..r[2] : ~IsWhite(s[i])
        /\ r[1] = 1 \/ IsWhite(s[r[1] - 1])
        /\ r[2] = Len(s) \/ IsWhite(s[r[2] + 1])}

\* the k-th token of s, from the left
Token(s, k) ==
    LET r == CHOOSE q \in Runs(s) :
                Cardinality({p \in Runs(s) : p[1] < q[1]}) = k - 1
    IN SubSeq(s, r[1], r[2])

\* the power of ten each unit multiplies by
UnitExp(u) ==
    CASE u = <<"s">> -> 9 [] u = <<"m", "s">> -> 6
      [] u = <<"u", "s">> -> 3 [] u = <<"n", "s">> -> 0

\* v * 10^n
TimesPow10(v, n) == IF IsFin(v) THEN Fin(v.m, v.e + n) ELSE v

\* C2: deserialization classifies the input by its whitespace-separated
\* tokens: one numeric token is that many nanoseconds; a numeric token and a
\* unit of {s, ms, us, ns} is the value times 1e9, 1e6, 1e3, 1; a first token
\* that is not a number (of one or two) is the malformed-number error; a
\* number and an unknown unit is the unknown-unit error; no token or three
\* and more are the format error.  The errors are three distinct ones and a
\* result is a value or an error, never both.
C2_DeserializeClassifies ==
    pc = "parsed" =>
        LET n == Cardinality(Runs(str))
            ret == res.ret
        IN /\ ret.tag \in {"Ok", "Err"}
           /\ DOMAIN ret = (IF ret.tag = "Ok" THEN {"tag", "val"}
                            ELSE {"tag", "msg", "arg"})
           /\ Cardinality({InvalidTime, UnknownUnit, UnknownFormat}) = 3
           /\ IF n = 1
              THEN IF ParseF64(Token(str, 1)).ok
                   THEN ret = Ok(Time(ParseF64(Token(str, 1)).val))
                   ELSE ret.tag = "Err" /\ ret.msg = InvalidTime
              ELSE IF n = 2
              THEN IF ~ParseF64(Token(str, 1)).ok
                   THEN ret.tag = "Err" /\ ret.msg = InvalidTime
                   ELSE IF Token(str, 2) \in {<<"s">>, <<"m", "s">>,
                                              <<"u", "s">>, <<"n", "s">>}
                   THEN ret = Ok(Time(TimesPow10(ParseF64(Token(str, 1)).val,
                                                 UnitExp(Token(str, 2)))))
                   ELSE ret.tag = "Err" /\ ret.msg = UnknownUnit
              ELSE ret.tag = "Err" /\ ret.msg = UnknownFormat

\* "5 ms" has been read as 5,000,000 ns
C2_Witness ==
    /\ pc = "parsed"
    /\ str = <<"5", " ", "m", "s">>
    /\ res.ret = Ok(Time(FromInt(5000000)))

\* C3: for any duration d, deserializing the serialized form of d succeeds
\* and yields a duration equal to d under the tolerant equality.
C3_RoundTrip ==
    pc = "roundtrip" => res.ret.tag = "Ok" /\ TimeEq(res.ret.val, a)

----------------------------------------------------------------------------
(* Machine integers *)

RECURSIVE Pow2(_)
Pow2(n) == IF n <= 0 THEN 1 ELSE 2 * Pow2(n - 1)

\* i64::MAX, i64::MIN and u64::MAX at the modelled width
MaxI == Pow2(IntBits - 1) - 1
MinI == -Pow2(IntBits - 1)
MaxU == Pow2(IntBits) - 1

\* two's complement wrap-around
WrapI(n) == ((n - MinI) % Pow2(IntBits)) + MinI

\* `u64 as f64`
U64ToF64(n) == FromInt(n)

\* `i64 as f64`
I64ToF64(n) == FromInt(n)

\* `f64 as i64`: toward zero, saturating, NaN to 0
F64ToI64(f) ==
    IF IsNaN(f) THEN 0
    ELSE IF IsInf(f) THEN (IF f.m > 0 THEN MaxI ELSE MinI)
    ELSE LET n == IF f.e >= 0 THEN f.m * Pow10(f.e)
                  ELSE Sgn(f.m) * (Abs(f.m) \div Pow10(-f.e))
         IN IF n > MaxI THEN MaxI ELSE IF n < MinI THEN MinI ELSE n

\* the i64 `/`: toward zero
TruncDiv(p, q) == Sgn(p) * Sgn(q) * (Abs(p) \div Abs(q))

RECURSIVE Gcd(_, _)
Gcd(m, n) == IF n = 0 THEN m ELSE Gcd(n, m % n)

\* num::integer::gcd on i64: the greatest common divisor of |m| and |n|; it
\* overflows when that is 2^(IntBits-1), which no i64 holds
IntegerGcd(m, n) ==
    LET g == Gcd(Abs(m), Abs(n))
    IN [v |-> WrapI(g), ovf |-> g > MaxI]

\* num::integer::lcm on i64: (m * (n / gcd)).abs(), 0 for two zeros; ovf
\* tells whether a step overflowed, v is the wrapped-around value
IntegerLcm(m, n) ==
    IF m = 0 /\ n = 0 THEN [v |-> 0, ovf |-> FALSE]
    ELSE LET g == IntegerGcd(m, n)
             prod == m * TruncDiv(n, g.v)
             w == WrapI(prod)
         IN [v |-> IF w = MinI THEN MinI ELSE Abs(w),
             ovf |-> g.ovf \/ prod # w \/ w = MinI]

----------------------------------------------------------------------------
(* RTTask *)

RTTask(wcet, deadline, period) ==
    [wcet |-> wcet, deadline |-> deadline, period |-> period]

new_ns(wcet, deadline, period) ==
    RTTask(nanos(U64ToF64(wcet)), nanos(U64ToF64(deadline)),
           nanos(U64ToF64(period)))

utilization(self) == FDiv(self.wcet.value_ns, self.period.value_ns)

density(self) == FDiv(self.wcet.value_ns, self.deadline.value_ns)

laxity(self) == TimeSub(self.deadline, self.wcet)

has_implicit_deadline(self) == TimeEq(self.deadline, self.period)

has_constrained_deadline(self) == TimeLe(self.deadline, self.period)

----------------------------------------------------------------------------
(* RTUtils *)

is_taskset_sorted_by_period(ts) ==
    \A w \in 1..(Len(ts) - 1) : TimeLe(ts[w].period, ts[w + 1].period)

is_taskset_sorted_by_deadline(ts) ==
    \A w \in 1..(Len(ts) - 1) : TimeLe(ts[w].deadline, ts[w + 1].deadline)

implicit_deadlines(ts) == \A i \in 1..Len(ts) : has_implicit_deadline(ts[i])

constrained_deadlines(ts) ==
    \A i \in 1..Len(ts) : has_constrained_deadline(ts[i])

\* Iterator::sum of f64, from 0.0
RECURSIVE SumF64(_)
SumF64(fs) ==
    IF fs = <<>> THEN FromInt(0)
    ELSE FAdd(SumF64(SubSeq(fs, 1, Len(fs) - 1)), fs[Len(fs)])

\* Iterator::max of OrderedFloat: None (here <<>>) for no element, else
\* <<the greatest one>>, the last of equal ones
RECURSIVE MaxOrdered(_)
MaxOrdered(fs) ==
    IF fs = <<>> THEN <<>>
    ELSE LET rest == MaxOrdered(SubSeq(fs, 1, Len(fs) - 1))
             last == fs[Len(fs)]
         IN IF rest = <<>> THEN <<last>>
            ELSE IF OrderedFloatCmp(last, rest[1]) = "Less" THEN rest
            ELSE <<last>>

total_utilization(ts) == SumF64([i \in 1..Len(ts) |-> utilization(ts[i])])

largest_utilization(ts) ==
    LET max == MaxOrdered([i \in 1..Len(ts) |-> utilization(ts[i])])
    IN IF max # <<>> THEN max[1] ELSE FromInt(0)

total_density(ts) == SumF64([i \in 1..Len(ts) |-> density(ts[i])])

largest_density(ts) ==
    LET max == MaxOrdered([i \in 1..Len(ts) |-> density(ts[i])])
    IN IF max # <<>> THEN max[1] ELSE FromInt(0)

\* the fold of hyperperiod over the first n periods, from 1
RECURSIVE LcmFold(_, _)
LcmFold(periods, n) ==
    IF n = 0 THEN [v |-> 1, ovf |-> FALSE]
    ELSE LET acc == LcmFold(periods, n - 1)
             lcm == IntegerLcm(acc.v, periods[n])
         IN [v |-> lcm.v, ovf |-> acc.ovf \/ lcm.ovf]

\* RTUtils::hyperperiod.  An i64 overflow panics in a build with overflow
\* checks (the debug profile) and wraps around in one without (release).
hyperperiod(ts, overflow_checks) ==
    LET periods == [i \in 1..Len(ts) |->
                        F64ToI64(FFloor(as_nanos(ts[i].period)))]
        h == LcmFold(periods, Len(ts))
    IN IF h.ovf /\ overflow_checks
       THEN [tag |-> "Panic", val |-> zero, overflow |-> TRUE]
       ELSE [tag |-> "Ok", val |-> Time(I64ToF64(h.v)), overflow |-> h.ovf]

----------------------------------------------------------------------------
(* The caller of RTTask and RTUtils: it holds a taskset and queries it *)

\* the tasks the caller builds: with new_ns, or field by field (the fields
\* are public and deserialized from any duration) for the fractional ones
Tasks ==
    { new_ns(1, 10, 10), new_ns(1, 5, 10), new_ns(1, 5, 5), new_ns(1, 2, 2),
      new_ns(2, 3, 3), new_ns(5, 3, 10), new_ns(0, 0, 0),
      new_ns(1, Pow2(IntBits - 2), Pow2(IntBits - 2)),
      new_ns(1, 1, MaxU),
      RTTask(Time(FromInt(1)), Time(Fin(104, -1)), Time(FromInt(10))),
      RTTask(Time(FromInt(1)), Time(FromInt(10)), Time(Fin(104, -1))) }

Tasksets == UNION {[1..n -> Tasks] : n \in 0..MaxTasks}

InitTask ==
    /\ a = zero
    /\ b = zero
    /\ c = zero
    /\ str = <<>>
    /\ taskset \in Tasksets
    /\ pc = "taskset"
    /\ res = NoCall

\* the call of a method on the i-th task
TaskCall(op, i, v) == Call(op, zero, zero, [i |-> i, v |-> v])

\* the call of a function on the taskset
SetCall(op, v) == Call(op, zero, zero, v)

DoUtilization ==
    /\ \E i \in 1..Len(taskset) :
            res' = TaskCall("utilization", i, utilization(taskset[i]))
    /\ UNCHANGED <<a, b, c, str, taskset, pc>>

DoDensity ==
    /\ \E i \in 1..Len(taskset) :
            res' = TaskCall("density", i, density(taskset[i]))
    /\ UNCHANGED <<a, b, c, str, taskset, pc>>

DoLaxity ==
    /\ \E i \in 1..Len(taskset) :
            res' = TaskCall("laxity", i, laxity(taskset[i]))
    /\ UNCHANGED <<a, b, c, str, taskset, pc>>

DoHasImplicit ==
    /\ \E i \in 1..Len(taskset) :
            res' = TaskCall("has_implicit_deadline", i,
                            has_implicit_deadline(taskset[i]))
    /\ UNCHANGED <<a, b, c, str, taskset, pc>>

DoHasConstrained ==
    /\ \E i \in 1..Len(taskset) :
            res' = TaskCall("has_constrained_deadline", i,
                            has_constrained_deadline(taskset[i]))
    /\ UNCHANGED <<a, b, c, str, taskset, pc>>

DoSortedByPeriod ==
    /\ res' = SetCall("is_taskset_sorted_by_period",
                      is_taskset_sorted_by_period(taskset))
    /\ UNCHANGED <<a, b, c, str, taskset, pc>>

DoSortedByDeadline ==
    /\ res' = SetCall("is_taskset_sorted_by_deadline",
                      is_taskset_sorted_by_deadline(taskset))
    /\ UNCHANGED <<a, b, c, str, taskset, pc>>

DoImplicitDeadlines ==
    /\ res' = SetCall("implicit_deadlines", implicit_deadlines(taskset))
    /\ UNCHANGED <<a, b, c, str, taskset, pc>>

DoConstrainedDeadlines ==
    /\ res' = SetCall("constrained_deadlines", constrained_deadlines(taskset))
    /\ UNCHANGED <<a, b, c, str, taskset, pc>>

DoTotalUtilization ==
    /\ res' = SetCall("total_utilization", total_utilization(taskset))
    /\ UNCHANGED <<a, b, c, str, taskset, pc>>

DoLargestUtilization ==
    /\ res' = SetCall("largest_utilization", largest_utilization(taskset))
    /\ UNCHANGED <<a, b, c, str, taskset, pc>>

DoTotalDensity ==
    /\ res' = SetCall("total_density", total_density(taskset))
    /\ UNCHANGED <<a, b, c, str, taskset, pc>>

DoLargestDensity ==
    /\ res' = SetCall("largest_density", largest_density(taskset))
    /\ UNCHANGED <<a, b, c, str, taskset, pc>>

DoHyperperiod ==
    /\ \E overflow_checks \in BOOLEAN :
            res' = SetCall("hyperperiod", hyperperiod(taskset, overflow_checks))
    /\ UNCHANGED <<a, b, c, str, taskset, pc>>

NextTask ==
    \/ DoUtilization \/ DoDensity \/ DoLaxity
    \/ DoHasImplicit \/ DoHasConstrained
    \/ DoSortedByPeriod \/ DoSortedByDeadline
    \/ DoImplicitDeadlines \/ DoConstrainedDeadlines
    \/ DoTotalUtilization \/ DoLargestUtilization
    \/ DoTotalDensity \/ DoLargestDensity
    \/ DoHyperperiod

SpecTask == InitTask /\ [][NextTask]_vars

----------------------------------------------------------------------------
(* Properties of RTTask and RTUtils, checked under SpecTask *)

\* the floored period of the i-th task, an integer nanosecond count
FlooredPeriod(i) == FloorInt(taskset[i].period.value_ns)

\* C4: hyperperiod returns the least common multiple of the floored periods:
\* 1 ns for the empty taskset, and for a non-empty taskset of positive
\* (floored) periods a positive multiple of every floored period such that no
\* smaller positive value is one.  (Stated here for the periods that an i64
\* holds.)
C4_HyperperiodIsLcm ==
    res.op = "hyperperiod" =>
        IF taskset = <<>> THEN res.ret = [tag |-> "Ok", val |-> Time(FromInt(1)),
                                          overflow |-> FALSE]
        ELSE (\A i \in 1..Len(taskset) :
                    FlooredPeriod(i) > 0 /\ FlooredPeriod(i) <= MaxI) =>
             /\ res.ret.tag = "Ok"
             /\ LET h == res.ret.val.value_ns
                IN /\ IsFin(h) /\ h.e >= 0 /\ h.m > 0
                   /\ \A i \in 1..Len(taskset) :
                        FloorInt(h) % FlooredPeriod(i) = 0
                   /\ \A k \in 1..(FloorInt(h) - 1) :
                        \E i \in 1..Len(taskset) : k % FlooredPeriod(i) # 0

\* x <= y under the tolerant ordering: x is below y or within half a
\* nanosecond of it
TolerantLe(x, y) == Tenths(x.value_ns) - Tenths(y.value_ns) < 5

\* C5: is_taskset_sorted_by_period (by_deadline) is true if and only if every
\* adjacent pair satisfies a <= b on the period (deadline) under the tolerant
\* ordering: a pair equal under the tolerant equality never makes it false.
C5_SortedUnderTolerantOrder ==
    /\ res.op = "is_taskset_sorted_by_period" =>
        (res.ret <=> \A i \in 1..(Len(taskset) - 1) :
                        TolerantLe(taskset[i].period, taskset[i + 1].period))
    /\ res.op = "is_taskset_sorted_by_deadline" =>
        (res.ret <=> \A i \in 1..(Len(taskset) - 1) :
                        TolerantLe(taskset[i].deadline, taskset[i + 1].deadline))

\* C6: every operation on tasks and tasksets returns a value for every input;
\* in particular hyperperiod never panics, and its integer fold never
\* overflows.  (Only hyperperiod has an outcome other than a value.)
C6_OperationsTotal ==
    res.op = "hyperperiod" => res.ret.tag = "Ok" /\ ~res.ret.overflow

\* C9: a task with an implicit deadline has a constrained deadline, and a
\* taskset of implicit deadlines is one of constrained deadlines.
C9_ImplicitImpliesConstrained ==
    /\ res.op = "has_implicit_deadline" /\ res.ret.v =>
            has_constrained_deadline(taskset[res.ret.i])
    /\ res.op = "has_constrained_deadline" /\ ~res.ret.v =>
            ~has_implicit_deadline(taskset[res.ret.i])
    /\ res.op = "implicit_deadlines" /\ res.ret =>
            constrained_deadlines(taskset)

====
